---- MODULE Spec2Model ----
(***************************************************************************)
(* Model of roadsideamerica.py: the per-region fetch / script scan / marker *)
(* extraction / GPX output pipeline of main(), with get_calls() and         *)
(* parse_marker_args() as recursive operators over Python values.           *)
(***************************************************************************)
EXTENDS Integers, Sequences, FiniteSets, TLC

\* ------------------------------------------------------------------ bounds
MaxRegions == 3
MaxScripts == 2

\* ------------------------------------------------------- Python values
\* A Python value is a tagged record: py is the Python type, s the text of a
\* scalar, items the (key, value) pairs of a dict in insertion order or the
\* elements of a list.
Str(s) == [py |-> "str", s |-> s, items |-> <<>>]
None == [py |-> "NoneType", s |-> "None", items |-> <<>>]
Bool(s) == [py |-> "bool", s |-> s, items |-> <<>>]
KV(key, val) == [key |-> key, val |-> val]
Dict(kvs) == [py |-> "dict", s |-> "", items |-> kvs]
List(xs) == [py |-> "list", s |-> "", items |-> xs]

\* key in d
HasKey(d, key) == \E j \in 1..Len(d.items) : d.items[j].key = key
\* d[key], for a key that is present
Get(d, key) == d.items[CHOOSE j \in 1..Len(d.items) : d.items[j].key = key].val
\* list(d.values())
Values(d) == [j \in 1..Len(d.items) |-> d.items[j].val]
\* v == "<text>" for a Python value v
PyEqStr(v, text) == v.py = "str" /\ v.s = text

\* ------------------------------------- syntax trees pyjsparser.parse returns
Identifier(name) == Dict(<<KV("type", Str("Identifier")), KV("name", Str(name))>>)
Literal(value, raw) ==
    Dict(<<KV("type", Str("Literal")), KV("value", value), KV("raw", Str(raw))>>)
StrLit(text) == Literal(Str(text), text)
NullLit == Literal(None, "null")
RegexLiteral(pattern) ==
    Dict(<<KV("type", Str("Literal")), KV("value", Str(pattern)), KV("raw", Str(pattern)),
           KV("regex", Dict(<<KV("pattern", Str(pattern)), KV("flags", Str(""))>>))>>)
MemberExpression(object, property) ==
    Dict(<<KV("type", Str("MemberExpression")), KV("computed", Bool("False")),
           KV("object", object), KV("property", property)>>)
CallExpression(callee, arguments) ==
    Dict(<<KV("type", Str("CallExpression")), KV("callee", callee),
           KV("arguments", List(arguments))>>)
ExpressionStatement(expression) ==
    Dict(<<KV("type", Str("ExpressionStatement")), KV("expression", expression)>>)
BlockStatement(body) == Dict(<<KV("type", Str("BlockStatement")), KV("body", List(body))>>)
FunctionExpression(body) ==
    Dict(<<KV("type", Str("FunctionExpression")), KV("id", None), KV("params", List(<<>>)),
           KV("defaults", List(<<>>)), KV("body", BlockStatement(body)),
           KV("generator", Bool("False")), KV("expression", Bool("False"))>>)
Program(body) == Dict(<<KV("type", Str("Program")), KV("body", List(body))>>)

TARGET == "addMarkerById"

\* addMarkerById(uid, <second>, lon, lat, name, ...rest)
MarkerCall(fn, uid, second, lon, lat, name, rest) ==
    CallExpression(Identifier(fn),
                   <<StrLit(uid), second, StrLit(lon), StrLit(lat), StrLit(name)>> \o rest)

\* A script block of a page: whether pyjsparser.parse accepts its source and,
\* if so, the tree it returns.
Unparsable == [parses |-> FALSE, tree |-> None]
Parsed(tree) == [parses |-> TRUE, tree |-> tree]

\* The script blocks pages are assembled from.
Catalog == <<
    \* 1: function( -- not valid script source
    Unparsable,
    \* 2: initMap(); addmarkerbyid("9", null, "1", "2", "x");
    Parsed(Program(<<ExpressionStatement(CallExpression(Identifier("initMap"), <<>>)),
                     ExpressionStatement(MarkerCall("addmarkerbyid", "9", NullLit,
                                                    "1", "2", "x", <<>>))>>)),
    \* 3: addMarkerById("123", null, "-71.0", "42.0", "Giant Duck", "extra");
    Parsed(Program(<<ExpressionStatement(MarkerCall(TARGET, "123", NullLit, "-71.0", "42.0",
                                                    "Giant Duck", <<StrLit("extra")>>))>>)),
    \* 4: addMarkerById("7", "icon", "-80.5", "35.1", "Big Chair");
    \*    addMarkerById("8", null, "-81.5", "36.1", "Muffler Man");
    Parsed(Program(<<ExpressionStatement(MarkerCall(TARGET, "7", StrLit("icon"), "-80.5",
                                                    "35.1", "Big Chair", <<>>)),
                     ExpressionStatement(MarkerCall(TARGET, "8", NullLit, "-81.5", "36.1",
                                                    "Muffler Man", <<>>))>>)),
    \* 5: ready(function () { addMarkerById("55", null, "-90.0", "30.0", "Nested"); });
    Parsed(Program(<<ExpressionStatement(CallExpression(Identifier("ready"),
               <<FunctionExpression(<<ExpressionStatement(
                     MarkerCall(TARGET, "55", NullLit, "-90.0", "30.0", "Nested", <<>>))>>)>>))>>)),
    \* 6: console.log("x");
    Parsed(Program(<<ExpressionStatement(CallExpression(
               MemberExpression(Identifier("console"), Identifier("log")),
               <<StrLit("x")>>))>>)),
    \* 7: addMarkerById("66", null);
    Parsed(Program(<<ExpressionStatement(CallExpression(Identifier(TARGET),
               <<StrLit("66"), NullLit>>))>>)),
    \* 8: addMarkerById("77", null, lon, "41.0", "Variable");
    Parsed(Program(<<ExpressionStatement(CallExpression(Identifier(TARGET),
               <<StrLit("77"), NullLit, Identifier("lon"), StrLit("41.0"),
                 StrLit("Variable")>>))>>)),
    \* 9: /a/;
    Parsed(Program(<<ExpressionStatement(RegexLiteral("/a/"))>>))
>>

BlockIds == 1..Len(Catalog)
Block(id) == Catalog[id]

\* ----------------------------------------------------------- get_calls
\* The result of draining a generator: the values it yielded, and the
\* exception that ended it ("" when it ran to completion).
Gen(yielded, err) == [yielded |-> yielded, err |-> err]

RECURSIVE get_calls(_)
RECURSIVE get_calls_each(_, _)

\* for x in xs: yield from get_calls(x) -- from element j on
get_calls_each(xs, j) ==
    IF j > Len(xs) THEN Gen(<<>>, "")
    ELSE LET head == get_calls(xs[j])
         IN  IF head.err # "" THEN head
             ELSE LET rest == get_calls_each(xs, j + 1)
                  IN  Gen(head.yielded \o rest.yielded, rest.err)

get_calls(obj) ==
    IF obj.py = "dict"
    THEN IF ~HasKey(obj, "type") THEN Gen(<<>>, "KeyError")
         ELSE IF PyEqStr(Get(obj, "type"), "CallExpression") THEN Gen(<<obj>>, "")
         ELSE get_calls_each(Values(obj), 1)
    ELSE IF obj.py = "list" THEN get_calls_each(obj.items, 1)
    ELSE Gen(<<>>, "")

\* ---------------------------------------------------- parse_marker_args
\* The outcome of a call that returns a list of pins or raises.
Out(pins, err) == [pins |-> pins, err |-> err]

\* pin[k] = pin[k]["value"] for the four keys, in the dict's order
parse_marker_args(args) ==
    IF Len(args) < 5 THEN Out(<<>>, "IndexError")
    ELSE IF \E p \in {1, 3, 4, 5} : ~HasKey(args[p], "value") THEN Out(<<>>, "KeyError")
    ELSE Out(<<[uid |-> Get(args[1], "value"),
                longitude |-> Get(args[3], "value"),
                latitude |-> Get(args[4], "value"),
                name |-> Get(args[5], "value")]>>, "")

\* ------------------------------------------ main: the loop over the calls
RECURSIVE append_markers(_, _, _)
\* for call in calls[j..]: if call["callee"]["name"] == TARGET: region_pins.append(...)
append_markers(calls, j, region_pins) ==
    IF j > Len(calls) THEN Out(region_pins, "")
    ELSE LET callee == Get(calls[j], "callee")
         IN  IF ~HasKey(callee, "name") THEN Out(region_pins, "KeyError")
             ELSE IF PyEqStr(Get(callee, "name"), TARGET)
             THEN LET marker == parse_marker_args(Get(calls[j], "arguments").items)
                  IN  IF marker.err # "" THEN Out(region_pins, marker.err)
                      ELSE append_markers(calls, j + 1, region_pins \o marker.pins)
             ELSE append_markers(calls, j + 1, region_pins)

\* for call in get_calls(parsed): ... -- the generator's own exception comes
\* after the calls it yielded have been handled
extract_script(parsed, region_pins) ==
    LET gen == get_calls(parsed)
        done == append_markers(gen.yielded, 1, region_pins)
    IN  IF done.err # "" THEN done ELSE Out(done.pins, gen.err)

\* ------------------------------------------------------------------ state
VARIABLES
    regions,      \* the region codes to process, in order
    i,            \* enumerate() index of the region being processed (from 0)
    pc,           \* position in main: fetch, scan, collect, write, done, crashed
    err,          \* the exception that ended the run ("" while none)
    scripts,      \* the script blocks of the current page (ids into Catalog)
    k,            \* 1-based position of `script` in scripts
    region_pins,  \* markers of the current region
    pins,         \* markers of all regions so far
    parsed,       \* positions of the blocks handed to pyjsparser.parse, this page
    statuses,     \* HTTP status of every response received, in order
    stopped,      \* per completed region, the block the scan stopped at
    log,          \* requests and sleeps, in order
    reported,     \* pin counts printed to stderr
    written       \* documents written to the output destination

vars == <<regions, i, pc, err, scripts, k, region_pins, pins, parsed, statuses,
          stopped, log, reported, written>>

\* The region codes main accepts.
REGIONS == <<
    "AL", "AK", "AZ", "AR", "CA", "CO", "CT", "DE", "DC", "FL", "GA",
    "HI", "ID", "IL", "IN", "IA", "KS", "KY", "LA", "ME", "MD", "MA",
    "MI", "MN", "MS", "MO", "MT", "NE", "NV", "NH", "NJ", "NM", "NY",
    "NC", "ND", "OH", "OK", "OR", "PA", "RI", "SC", "SD", "TN", "TX",
    "UT", "VT", "VA", "WA", "WV", "WI", "WY", "XAB", "XBC", "XMB",
    "XNB", "XNF", "XNT", "XNS", "XON", "XPQ", "XPE", "XSK", "XYT"
>>
\* The region lists a run is started with: the first n codes of REGIONS.
RegionLists == {[r \in 1..n |-> REGIONS[r]] : n \in 1..MaxRegions}
\* Responses the site can give: success, not found, unavailable.
StatusCodes == {200, 404, 503}
\* The script lists soup.find_all can return.
Pages == UNION {[1..n -> BlockIds] : n \in 0..MaxScripts}

NoScriptsError == "KeyError: 'No js scripts found'"

Init ==
    /\ regions \in RegionLists
    /\ i = 0
    /\ pc = "fetch"
    /\ err = ""
    /\ scripts = <<>>
    /\ k = 0
    /\ region_pins = <<>>
    /\ pins = <<>>
    /\ parsed = <<>>
    /\ statuses = <<>>
    /\ stopped = <<>>
    /\ log = <<>>
    /\ reported = <<>>
    /\ written = <<>>

\* ----------------------------------------------------------------- helpers
raise_for_status_ignored(status) == FALSE
\* resp.raise_for_status() raises for a 4xx or 5xx status
raise_for_status(status) == 400 <= status /\ status < 600

StopScanning_never(rp) == FALSE
\* if region_pins: break
StopScanning(rp) == rp # <<>>

NoMarkers_ignored(rp) == FALSE
\* if not region_pins: raise KeyError(...)
NoMarkers(rp) == rp = <<>>

Extend_front(all, rp) == rp \o all
\* pins.extend(region_pins)
Extend(all, rp) == all \o rp

\* if i != len(regions): time.sleep(1)
Cooldown(idx, n) == idx # n

\* tristrip(f"... https://www.roadsideamerica.com/tip/{pin['uid']} ...")
tristrip_tip(uid) == "https://www.roadsideamerica.com/tip/" \o uid.s

GPXWaypoint(pin) ==
    [longitude |-> pin.longitude, latitude |-> pin.latitude, name |-> pin.name,
     description |-> tristrip_tip(pin.uid)]

\* gpx.waypoints after the loop over pins
Waypoints(all) == [j \in 1..Len(all) |-> GPXWaypoint(all[j])]

\* gpx.to_xml(): one document holding the waypoints in order
to_xml(wps) == [gpx |-> "1.1", wpt |-> wps]

\* ----------------------------------------------------------------- actions
\* requests.get + raise_for_status + BeautifulSoup + find_all
Fetch ==
    /\ pc = "fetch"
    /\ \E status \in StatusCodes, page \in Pages :
        /\ log' = Append(log, "request")
        /\ statuses' = Append(statuses, status)
        /\ IF raise_for_status(status)
           THEN /\ pc' = "crashed"
                /\ err' = "HTTPError"
                /\ UNCHANGED <<scripts, k, region_pins, parsed>>
           ELSE /\ scripts' = page
                /\ region_pins' = <<>>
                /\ parsed' = <<>>
                /\ k' = IF page = <<>> THEN 0 ELSE 1
                /\ pc' = IF page = <<>> THEN "collect" ELSE "scan"
                /\ err' = err
    /\ UNCHANGED <<regions, i, pins, stopped, reported, written>>

\* one iteration of `for script in scripts`
ScanScript ==
    /\ pc = "scan"
    /\ parsed' = Append(parsed, k)
    /\ LET block == Block(scripts[k])
       IN  IF ~block.parses
           THEN /\ pc' = "crashed"
                /\ err' = "JsSyntaxError"
                /\ UNCHANGED <<k, region_pins>>
           ELSE LET out == extract_script(block.tree, region_pins)
                IN  /\ region_pins' = out.pins
                    /\ IF out.err # ""
                       THEN pc' = "crashed" /\ err' = out.err /\ k' = k
                       ELSE IF StopScanning(out.pins) \/ k = Len(scripts)
                       THEN pc' = "collect" /\ err' = err /\ k' = k
                       ELSE pc' = "scan" /\ err' = err /\ k' = k + 1
    /\ UNCHANGED <<regions, i, scripts, pins, statuses, stopped, log, reported, written>>

\* after the scan: the empty check, pins.extend, the sleep, the next region
Collect ==
    /\ pc = "collect"
    /\ IF NoMarkers(region_pins)
       THEN /\ pc' = "crashed"
            /\ err' = NoScriptsError
            /\ UNCHANGED <<i, pins, stopped, log>>
       ELSE /\ pins' = Extend(pins, region_pins)
            /\ stopped' = Append(stopped, IF k \in DOMAIN scripts THEN scripts[k] ELSE 0)
            /\ log' = IF Cooldown(i, Len(regions)) THEN Append(log, "sleep") ELSE log
            /\ i' = i + 1
            /\ pc' = IF i + 1 < Len(regions) THEN "fetch" ELSE "write"
            /\ err' = err
    /\ UNCHANGED <<regions, scripts, k, region_pins, parsed, statuses, reported, written>>

\* the count on stderr, the waypoints, to_xml and the write
Write ==
    /\ pc = "write"
    /\ reported' = Append(reported, Len(pins))
    /\ written' = Append(written, to_xml(Waypoints(pins)))
    /\ pc' = "done"
    /\ UNCHANGED <<regions, i, err, scripts, k, region_pins, pins, parsed, statuses,
                   stopped, log>>

Next == Fetch \/ ScanScript \/ Collect \/ Write

Spec == Init /\ [][Next]_vars

\* ------------------------------------------ what the claims are stated with
RECURSIVE AllCalls(_)
RECURSIVE AllCallsEach(_, _)

\* Every call expression of a tree in depth-first pre-order, the ones nested in
\* the callee or the arguments of another call included; a dict without a
\* "type" is only descended into.
AllCallsEach(xs, j) ==
    IF j > Len(xs) THEN <<>> ELSE AllCalls(xs[j]) \o AllCallsEach(xs, j + 1)

AllCalls(obj) ==
    IF obj.py = "dict"
    THEN (IF HasKey(obj, "type") /\ PyEqStr(Get(obj, "type"), "CallExpression")
          THEN <<obj>> ELSE <<>>) \o AllCallsEach(Values(obj), 1)
    ELSE IF obj.py = "list" THEN AllCallsEach(obj.items, 1)
    ELSE <<>>

IsNode(obj, type) ==
    obj.py = "dict" /\ HasKey(obj, "type") /\ PyEqStr(Get(obj, "type"), type)

\* a call whose callee is the identifier TARGET
IsTargetCall(call) ==
    /\ IsNode(Get(call, "callee"), "Identifier")
    /\ PyEqStr(Get(Get(call, "callee"), "name"), TARGET)

TargetCalls(tree) == SelectSeq(AllCalls(tree), IsTargetCall)

\* literal arguments at positions 0, 2, 3 and 4
WellFormed(call) ==
    LET a == Get(call, "arguments").items
    IN  /\ Len(a) >= 5
        /\ \A p \in {1, 3, 4, 5} : IsNode(a[p], "Literal") /\ HasKey(a[p], "value")

RecordOf(call) ==
    LET a == Get(call, "arguments").items
    IN  [uid |-> Get(a[1], "value"), longitude |-> Get(a[3], "value"),
         latitude |-> Get(a[4], "value"), name |-> Get(a[5], "value")]

\* one record per well-formed target call, in traversal order
ExpectedMarkers(tree) ==
    LET calls == SelectSeq(TargetCalls(tree), WellFormed)
    IN  [j \in 1..Len(calls) |-> RecordOf(calls[j])]

RECURSIVE IsSubSeqFrom(_, _, _, _)
\* xs[a..] occurs in ys[b..] in the same order
IsSubSeqFrom(xs, a, ys, b) ==
    IF a > Len(xs) THEN TRUE
    ELSE IF b > Len(ys) THEN FALSE
    ELSE IF xs[a] = ys[b] THEN IsSubSeqFrom(xs, a + 1, ys, b + 1)
    ELSE IsSubSeqFrom(xs, a, ys, b + 1)

\* the markers a block yields when scanned on its own
MarkersOf(id) == extract_script(Block(id).tree, <<>>).pins
\* the block parses, its extraction ends normally and gives a marker
Yields(id) ==
    /\ id \in BlockIds
    /\ Block(id).parses
    /\ extract_script(Block(id).tree, <<>>).err = ""
    /\ MarkersOf(id) # <<>>

RECURSIVE ConcatMarkers(_, _)
\* the markers of blocks ids[r..], region after region
ConcatMarkers(ids, r) ==
    IF r > Len(ids) THEN <<>> ELSE MarkersOf(ids[r]) \o ConcatMarkers(ids, r + 1)

ScriptErrors == {"JsSyntaxError", "KeyError", "IndexError"}
CrashedInScan == pc = "crashed" /\ err \in ScriptErrors
\* positions (in parsed) of the blocks whose scan ran to its end
Completed == IF CrashedInScan THEN 1..(Len(parsed) - 1) ELSE 1..Len(parsed)
\* what the scan of the block at position j gave: region_pins is empty whenever
\* a scan starts, so only the last scanned block can have filled it
YieldedBy(j) == IF j = Len(parsed) THEN region_pins ELSE <<>>
TreeAt(j) == Block(scripts[parsed[j]]).tree
ParsesAt(j) == Block(scripts[parsed[j]]).parses
Count(seq, x) == Cardinality({j \in 1..Len(seq) : seq[j] = x})
NonSuccess(status) == ~(200 <= status /\ status < 300)
Found == pc = "collect" /\ region_pins # <<>>

\* ------------------------------------------------------------------ claims

\* C1: the scan visits the blocks of a page in forward document order and stops
\* at the first block that yields a marker; the region's markers are exactly
\* that block's markers and no later block is parsed.
C1_FirstYieldingBlockWins ==
    /\ parsed = [j \in 1..Len(parsed) |-> j]
    /\ Found =>
         \E f \in 1..Len(scripts) :
            /\ Yields(scripts[f])
            /\ \A j \in 1..(f - 1) : ~Yields(scripts[j])
            /\ region_pins = MarkersOf(scripts[f])
            /\ parsed = [j \in 1..f |-> j]

\* C1 witness: the scan stopped at a yielding block while a later block, which
\* would have yielded other markers, was left unparsed.
C1_Witness ==
    /\ Found
    /\ Len(parsed) < Len(scripts)
    /\ Yields(scripts[Len(scripts)])
    /\ region_pins # MarkersOf(scripts[Len(scripts)])

\* C2 (as claimed): a block that fails to parse is skipped, so a run never ends
\* on a parse failure while a later block of the page yields a marker.
C2_ParseFailureIsSkipped ==
    ~(/\ pc = "crashed"
      /\ err = "JsSyntaxError"
      /\ \E j \in (k + 1)..Len(scripts) : Yields(scripts[j]))

\* C3 (as claimed): scanning a block gives one record per call to the target
\* found anywhere in its tree, nested calls included, in pre-order.
C3_EveryTargetCallYields ==
    \A j \in Completed :
        (\A c \in 1..Len(TargetCalls(TreeAt(j))) : WellFormed(TargetCalls(TreeAt(j))[c]))
            => YieldedBy(j) = ExpectedMarkers(TreeAt(j))

\* C4 (as claimed): a block that parses and holds no call to the target is
\* scanned to its end without an error and gives no record.
C4_NoTargetCallGivesEmpty ==
    \A j \in 1..Len(parsed) :
        (ParsesAt(j) /\ TargetCalls(TreeAt(j)) = <<>>)
            => (j \in Completed /\ YieldedBy(j) = <<>>)

\* C5 (as claimed): a call to the target without literals at positions 0, 2, 3
\* and 4 does not crash the scan: it is skipped, the other records unaffected,
\* or it is reported as a MalformedMarkerError; no partial record is kept.
C5_MalformedCallDoesNotCrash ==
    \A j \in 1..Len(parsed) :
        (ParsesAt(j) /\ \E c \in 1..Len(TargetCalls(TreeAt(j))) :
                            ~WellFormed(TargetCalls(TreeAt(j))[c]))
            => \/ j \in Completed /\ YieldedBy(j) = ExpectedMarkers(TreeAt(j))
               \/ pc = "crashed" /\ err = "MalformedMarkerError"
                                 /\ region_pins = <<>>

\* C6 (as claimed): a block that parses and holds exactly one call to the
\* target, with literals at positions 0, 2, 3 and 4, gives exactly one record,
\* made of those four value payloads.
C6_OneCallOneRecord ==
    \A j \in 1..Len(parsed) :
        (/\ ParsesAt(j)
         /\ Len(TargetCalls(TreeAt(j))) = 1
         /\ WellFormed(TargetCalls(TreeAt(j))[1]))
            => (j \in Completed /\ YieldedBy(j) = <<RecordOf(TargetCalls(TreeAt(j))[1])>>)

\* C7: when no block of a page yields a marker (a page without blocks
\* included) the scan ends with empty region_pins, the next step raises and
\* ends the run: nothing is requested, reported or written afterwards, and the
\* markers of earlier regions are never emitted.
C7_NoMarkersIsFatal ==
    /\ [](pc = "collect" =>
            (region_pins = <<>> <=> \A j \in 1..Len(scripts) : ~Yields(scripts[j])))
    /\ [][(pc = "collect" /\ region_pins = <<>>) =>
            (/\ pc' = "crashed"
             /\ err' = NoScriptsError
             /\ UNCHANGED <<i, pins, log, statuses, reported, written>>)]_vars
    /\ [](pc = "crashed" => (written = <<>> /\ reported = <<>>))
    /\ [][pc # "crashed"]_vars

\* C7 witness: the run died on a page without markers after an earlier region
\* had given markers and with a later region still unrequested.
C7_Witness ==
    /\ pc = "crashed"
    /\ err = NoScriptsError
    /\ pins # <<>>
    /\ i + 1 < Len(regions)
    /\ Count(log, "request") = i + 1
    /\ written = <<>>

\* C8: pins holds the markers of the regions in the order the regions were
\* processed, each region's markers in the traversal order of their calls; the
\* document written has one waypoint per marker, in that order, and the count
\* reported is the number of waypoints.
C8_OrderPreserved ==
    /\ pins = ConcatMarkers(stopped, 1)
    /\ \A r \in 1..Len(stopped) :
          IsSubSeqFrom(MarkersOf(stopped[r]), 1,
                       ExpectedMarkers(Block(stopped[r]).tree), 1)
    /\ pc = "done" =>
          /\ Len(stopped) = Len(regions)
          /\ Len(written) = 1
          /\ Len(written[1].wpt) = Len(pins)
          /\ \A j \in 1..Len(pins) :
                /\ written[1].wpt[j].longitude = pins[j].longitude
                /\ written[1].wpt[j].latitude = pins[j].latitude
                /\ written[1].wpt[j].name = pins[j].name
                /\ written[1].wpt[j].description = tristrip_tip(pins[j].uid)
          /\ reported = <<Len(written[1].wpt)>>

\* C8 witness: a finished run over two regions whose pages stopped at different
\* blocks, one of them holding two markers.
C8_Witness ==
    /\ pc = "done"
    /\ Len(regions) = 2
    /\ stopped[1] # stopped[2]
    /\ Len(MarkersOf(stopped[1])) = 2
    /\ Len(written[1].wpt) = 3

\* C9 (as claimed): a finished run over n regions slept n - 1 times, never
\* after the last request.
C9_SleepOnlyBetweenRequests ==
    pc = "done" =>
        /\ Count(log, "sleep") = Len(regions) - 1
        /\ log[Len(log)] # "sleep"

====
